---- MODULE Spec2Model ----
(***************************************************************************)
(* The .SKIN multi-submesh importer (skin_imp.py for Blender 2.80+ and     *)
(* skin_imp_2,79b.py for Blender 2.79) as a state machine.                 *)
(*                                                                         *)
(* A file is a sequence of bytes (0..255).  An import opens the file,      *)
(* reads the 17-byte header, then calls read_submesh submesh_count times;  *)
(* every call parses one submesh record and immediately builds a mesh, a   *)
(* scene object and its materials in the host (bpy).  An exception raised  *)
(* by a read propagates out of the operator; nothing is rolled back.       *)
(*                                                                         *)
(* The host API is modelled by what the importer asks of it: meshes.new,   *)
(* from_pydata (one polygon per entry of the face list), uv_layers.new,    *)
(* objects.new + link, materials.new.  Calls that the code wraps in        *)
(* try/except (custom normals, image loading) succeed or fail as the       *)
(* environment decides.                                                    *)
(***************************************************************************)
EXTENDS Integers, Sequences, FiniteSets, TLC

VARIABLES
    variant,    \* which importer runs: "2.80" (skin_imp.py) or "2.79"
    inp,        \* the description the file was written from (test fixture)
    alt,        \* the description the comparison file was written from
    run,        \* the import of the file: file object, loop position, host data
    twin        \* the same importer run on the comparison file

vars == <<variant, inp, alt, run, twin>>

-----------------------------------------------------------------------------
(* Strings are sequences of code points.                                   *)

Str_Submesh == <<83, 117, 98, 109, 101, 115, 104>>
Str_ImportedMaterial ==
    <<73, 109, 112, 111, 114, 116, 101, 100, 77, 97, 116, 101, 114, 105, 97, 108>>
Str_UVMap == <<85, 86, 77, 97, 112>>

Min(a, b) == IF a < b THEN a ELSE b

\* bytes.decode("utf-8", errors="ignore"): one- and two-byte sequences are
\* decoded, every byte that starts no valid sequence is dropped.  (Lead bytes
\* of three- and four-byte sequences do not occur in the files checked.)
\* A lead byte 0xC2..0xDF is never a continuation byte, so whether position
\* i starts a sequence depends on bytes i and i + 1 alone.
decode_utf8_ignore(bs) ==
    LET IsLead(i) == /\ bs[i] >= 194 /\ bs[i] <= 223
                     /\ i < Len(bs) /\ bs[i + 1] >= 128 /\ bs[i + 1] <= 191
        starts == SelectSeq([i \in 1..Len(bs) |-> i],
                            LAMBDA i : bs[i] < 128 \/ IsLead(i))
    IN  [k \in 1..Len(starts) |->
            IF bs[starts[k]] < 128 THEN bs[starts[k]]
            ELSE (bs[starts[k]] - 192) * 64 + (bs[starts[k] + 1] - 128)]

\* str.strip(): whitespace code points below U+0800
Whitespace == {9, 10, 11, 12, 13, 28, 29, 30, 31, 32, 133, 160}

RECURSIVE lstrip(_)
lstrip(s) == IF s # <<>> /\ s[1] \in Whitespace THEN lstrip(Tail(s)) ELSE s

RECURSIVE rstrip(_)
rstrip(s) ==
    IF s # <<>> /\ s[Len(s)] \in Whitespace
    THEN rstrip(SubSeq(s, 1, Len(s) - 1)) ELSE s

strip(s) == rstrip(lstrip(s))

-----------------------------------------------------------------------------
(* The file object and struct.unpack.  A cursor is the open file (data,    *)
(* pos), the exception in flight (err) and a log of what the reads asked   *)
(* for: reads (the argument of every f.read), allocs (the length of every  *)
(* format string built from a count, with the bytes left at that moment)   *)
(* and short (string reads that returned fewer bytes than declared).       *)

Open(data) ==
    [data |-> data, pos |-> 0, err |-> "none",
     reads |-> <<>>, allocs |-> <<>>, short |-> <<>>]

Remaining(c) == Len(c.data) - c.pos

\* f.read(n): the next n bytes, or as many as are left; never an error
f_read(c, n) ==
    LET got == SubSeq(c.data, c.pos + 1, Min(c.pos + n, Len(c.data)))
    IN  [bytes |-> got,
         c |-> [c EXCEPT !.pos = @ + Len(got), !.reads = Append(@, n)]]

\* the little-endian unsigned value of a byte string
RECURSIVE LittleEndian(_)
LittleEndian(bs) ==
    IF bs = <<>> THEN 0 ELSE bs[1] + 256 * LittleEndian(Tail(bs))

\* struct.unpack of n items of `size` bytes each: struct.error unless the
\* buffer holds exactly n * size bytes.  A float is kept as its bit pattern.
struct_unpack(n, size, bs) ==
    IF Len(bs) # n * size THEN [err |-> "struct.error", v |-> <<>>]
    ELSE [err |-> "none",
          v |-> [i \in 1..n |-> LittleEndian(SubSeq(bs, (i - 1) * size + 1, i * size))]]

\* struct.unpack(<fixed format of n items>, f.read(n * size))
unpack_from(c, n, size) ==
    IF c.err # "none" THEN [c |-> c, v |-> <<>>]
    ELSE LET r == f_read(c, n * size)
             u == struct_unpack(n, size, r.bytes)
         IN  IF u.err = "none" THEN [c |-> r.c, v |-> u.v]
             ELSE [c |-> [r.c EXCEPT !.err = u.err], v |-> <<>>]

\* struct.unpack("<I", f.read(4))[0] and struct.unpack("<B", f.read(1))[0]
\* (v is 0 when the read raised: no value is bound, and none is used)
read_u32(c) ==
    LET r == unpack_from(c, 1, 4)
    IN  [c |-> r.c, v |-> IF r.v = <<>> THEN 0 ELSE r.v[1]]
read_u8(c) ==
    LET r == unpack_from(c, 1, 1)
    IN  [c |-> r.c, v |-> IF r.v = <<>> THEN 0 ELSE r.v[1]]

\* if count > 0: struct.unpack("<" + X * units, f.read(units * size)), else
\* nothing is read; the format string is built before the read is made
read_array(c, count, units, size) ==
    IF c.err # "none" \/ count = 0 THEN [c |-> c, v |-> <<>>]
    ELSE unpack_from([c EXCEPT !.allocs =
                         Append(@, [units |-> units, size |-> size,
                                    left |-> Remaining(c)])],
                     units, size)

\* tuples of `per` consecutive values: (d[i*per], ..., d[i*per + per - 1])
Grouped(flat, count, per) ==
    IF flat = <<>> THEN <<>>
    ELSE [i \in 1..count |-> SubSeq(flat, (i - 1) * per + 1, i * per)]

\* f.read(n).decode("utf-8", errors="ignore") if n > 0 else default
read_string(c, n, default) ==
    IF c.err # "none" THEN [c |-> c, v |-> <<>>]
    ELSE IF n = 0 THEN [c |-> c, v |-> default]
    ELSE LET r == f_read(c, n)
             c1 == IF Len(r.bytes) < n
                   THEN [r.c EXCEPT !.short =
                            Append(@, [declared |-> n, got |-> Len(r.bytes)])]
                   ELSE r.c
         IN  [c |-> c1, v |-> decode_utf8_ignore(r.bytes)]

-----------------------------------------------------------------------------
(* A frame is a call in progress: the file (c) and the locals bound so far *)
(* (l).  Each statement of read_material and read_submesh is one operator  *)
(* from frame to frame; after an exception the remaining statements bind   *)
(* nothing.                                                                *)

Bound(fr, name, r) == [c |-> r.c, l |-> [fr.l EXCEPT ![name] = r.v]]

Item(values, i) == IF values = <<>> THEN 0 ELSE values[i]

\* a, b = struct.unpack("<II", f.read(8))
BoundPair(fr, name1, name2, r) ==
    [c |-> r.c,
     l |-> [fr.l EXCEPT ![name1] = Item(r.v, 1), ![name2] = Item(r.v, 2)]]

get_u32(fr, name) == Bound(fr, name, read_u32(fr.c))
get_u8(fr, name) == Bound(fr, name, read_u8(fr.c))
get_pair(fr, name1, name2) == BoundPair(fr, name1, name2, unpack_from(fr.c, 2, 4))

\* name = f.read(length).decode(...) if length > 0 else default
get_string(fr, length_name, name, default) ==
    Bound(fr, name, read_string(fr.c, fr.l[length_name], default))

\* length = unpack("<I", ...); name = f.read(length).decode(...) if length > 0 else default
get_sized_string(fr, length_name, name, default) ==
    get_string(get_u32(fr, length_name), length_name, name, default)

-----------------------------------------------------------------------------
(* read_material / read_material_279                                       *)

\* the value material_name takes when its declared length is 0
empty_material_name(v) == IF v = "2.79" THEN Str_ImportedMaterial ELSE <<>>

NoMaterialLocals ==
    [color1 |-> 0, color2 |-> 0, alpha |-> 0, color3 |-> 0, color4 |-> 0,
     flag1 |-> 0,
     tex1_name_len |-> 0, texture1_name |-> <<>>,
     tex2_name_len |-> 0, texture2_name |-> <<>>,
     tex3_name_len |-> 0, texture3_name |-> <<>>,
     mat_name_len |-> 0, material_name |-> <<>>]

\* (variant of material_statement in which read_material_279 does not read
\* the flag byte)
material_statement_279SkipsFlag(v, fr, k) ==
    CASE k = 1 -> get_pair(fr, "color1", "color2")
      [] k = 2 -> get_u32(fr, "alpha")
      [] k = 3 -> get_pair(fr, "color3", "color4")
      [] k = 4 -> IF v = "2.79" THEN fr ELSE get_u8(fr, "flag1")
      [] k = 5 -> get_sized_string(fr, "tex1_name_len", "texture1_name", <<>>)
      [] k = 6 -> get_sized_string(fr, "tex2_name_len", "texture2_name", <<>>)
      [] k = 7 -> get_sized_string(fr, "tex3_name_len", "texture3_name", <<>>)
      [] k = 8 -> get_sized_string(fr, "mat_name_len", "material_name",
                                   empty_material_name(v))

\* the k-th statement of read_material
material_statement(v, fr, k) ==
    CASE k = 1 -> get_pair(fr, "color1", "color2")
      [] k = 2 -> get_u32(fr, "alpha")
      [] k = 3 -> get_pair(fr, "color3", "color4")
      [] k = 4 -> get_u8(fr, "flag1")
      [] k = 5 -> get_sized_string(fr, "tex1_name_len", "texture1_name", <<>>)
      [] k = 6 -> get_sized_string(fr, "tex2_name_len", "texture2_name", <<>>)
      [] k = 7 -> get_sized_string(fr, "tex3_name_len", "texture3_name", <<>>)
      [] k = 8 -> get_sized_string(fr, "mat_name_len", "material_name",
                                   empty_material_name(v))

\* statements k.. of read_material, up to the return or to an exception
RECURSIVE material_from(_, _, _)
material_from(v, fr, k) ==
    IF k > 8 \/ fr.c.err # "none" THEN fr
    ELSE material_from(v, material_statement(v, fr, k), k + 1)

\* return {...}: the dict of the ten decoded fields; read_material_279 files
\* the flag byte under "flag", read_material under "flag1"
material_dict(v, l) ==
    IF v = "2.79"
    THEN [color1 |-> l.color1, color2 |-> l.color2, alpha |-> l.alpha,
          color3 |-> l.color3, color4 |-> l.color4, flag |-> l.flag1,
          texture1_name |-> l.texture1_name, texture2_name |-> l.texture2_name,
          texture3_name |-> l.texture3_name, material_name |-> l.material_name]
    ELSE [color1 |-> l.color1, color2 |-> l.color2, alpha |-> l.alpha,
          color3 |-> l.color3, color4 |-> l.color4, flag1 |-> l.flag1,
          texture1_name |-> l.texture1_name, texture2_name |-> l.texture2_name,
          texture3_name |-> l.texture3_name, material_name |-> l.material_name]

returned(v, fr) == [c |-> fr.c, l |-> material_dict(v, fr.l)]

read_material(v, c0) ==
    returned(v, material_from(v, [c |-> c0, l |-> NoMaterialLocals], 1))

\* materials.append(read_material(f))
AppendMaterial(acc, m) == [c |-> m.c, v |-> Append(acc.v, m.l)]

\* for _ in range(n): materials.append(read_material(f)), acc = the file and
\* the list so far
RECURSIVE read_materials(_, _, _)
read_materials(v, acc, n) ==
    IF n = 0 \/ acc.c.err # "none" THEN acc
    ELSE read_materials(v, AppendMaterial(acc, read_material(v, acc.c)), n - 1)

-----------------------------------------------------------------------------
(* create_blender_material / create_blender_material_279                   *)

\* (variant of material_slot_name without the fallback)
material_slot_name_NoDefault(mat_data) == mat_data.material_name

material_slot_name(mat_data) ==
    IF mat_data.material_name # <<>> THEN mat_data.material_name
    ELSE Str_ImportedMaterial

\* loaded: whether bpy.data.images.load succeeded; a failure is caught and a
\* placeholder image named after the texture is created instead
create_blender_material(mat_data, loaded) ==
    LET tex_name == strip(mat_data.texture1_name)
    IN  [name |-> material_slot_name(mat_data),
         image |-> IF tex_name = <<>> THEN <<>>
                   ELSE <<[name |-> tex_name, placeholder |-> ~loaded]>>]

-----------------------------------------------------------------------------
(* read_submesh / read_submesh_279: the parse                              *)

\* the value submesh_name takes when name_len is 0
empty_submesh_name == Str_Submesh

\* [face_indices_raw[i:i+3] for i in range(0, face_count, 3)]
face_groups(raw, face_count) ==
    [j \in 1..((face_count + 2) \div 3) |->
        SubSeq(raw, 3 * (j - 1) + 1, Min(3 * j, face_count))]

NoSubmeshLocals ==
    [name_len |-> 0, submesh_name |-> <<>>,
     vertex_count |-> 0, vertices |-> <<>>,
     face_count |-> 0, face_indices |-> <<>>,
     uv_flag |-> 0, uv_count |-> 0, uvs |-> <<>>,
     normal_flag |-> 0, normal_count |-> 0, normals |-> <<>>,
     extra_flag |-> 0, unknown_int3 |-> 0,
     material_count |-> 0, materials |-> <<>>,
     matid_count |-> 0, matids |-> <<>>,
     unknown_tail |-> <<>>]

\* [(d[i*per], ...) for i in range(count)] of the values just read
regroup(r, count, per) == [c |-> r.c, v |-> Grouped(r.v, count, per)]

\* the face list made of the indices just read
sliced(r, face_count) ==
    [c |-> r.c,
     v |-> IF r.v = <<>> THEN <<>> ELSE face_groups(r.v, face_count)]

\* if count > 0: data = struct.unpack(count * per items); name = the tuples
get_grouped(fr, count_name, name, per) ==
    Bound(fr, name,
          regroup(read_array(fr.c, fr.l[count_name], fr.l[count_name] * per, 4),
                  fr.l[count_name], per))

\* if count > 0: name = struct.unpack(count items of `size` bytes)
get_values(fr, count_name, name, size) ==
    Bound(fr, name,
          read_array(fr.c, fr.l[count_name], fr.l[count_name], size))

\* name = struct.unpack(<n items>, f.read(n * size))
get_tuple(fr, name, n, size) == Bound(fr, name, unpack_from(fr.c, n, size))

\* step 3 of read_submesh: face_count, the raw indices, the face list
get_faces(fr) ==
    Bound(fr, "face_indices",
          sliced(read_array(fr.c, fr.l.face_count, fr.l.face_count, 4),
                 fr.l.face_count))

\* step 7 of read_submesh: material_count materials
get_materials(v, fr) ==
    Bound(fr, "materials",
          read_materials(v, [c |-> fr.c, v |-> <<>>], fr.l.material_count))

\* (variant of read_flagged_array in which a zero flag byte means that the
\* count and the data are absent)
read_flagged_array_Gated(fr, flag_name, count_name, name, per) ==
    IF get_u8(fr, flag_name).l[flag_name] = 0 THEN get_u8(fr, flag_name)
    ELSE get_grouped(get_u32(get_u8(fr, flag_name), count_name),
                     count_name, name, per)

\* steps 4 and 5 of read_submesh: flag byte, count, count * per floats
read_flagged_array(fr, flag_name, count_name, name, per) ==
    get_grouped(get_u32(get_u8(fr, flag_name), count_name),
                count_name, name, per)

\* what the parse hands to the build: nothing when a read raised
Parsed(fr) ==
    [c |-> fr.c, ok |-> fr.c.err = "none",
     locals |-> IF fr.c.err = "none" THEN fr.l ELSE <<>>]

\* the k-th step of read_submesh, as its comments number them
submesh_step(v, fr, k) ==
    CASE k = 1 -> get_sized_string(fr, "name_len", "submesh_name",
                                   empty_submesh_name)
      [] k = 2 -> get_grouped(get_u32(fr, "vertex_count"),
                              "vertex_count", "vertices", 3)
      [] k = 3 -> get_faces(get_u32(fr, "face_count"))
      [] k = 4 -> read_flagged_array(fr, "uv_flag", "uv_count", "uvs", 2)
      [] k = 5 -> read_flagged_array(fr, "normal_flag", "normal_count",
                                     "normals", 3)
      [] k = 6 -> get_u32(get_u8(fr, "extra_flag"), "unknown_int3")
      [] k = 7 -> get_materials(v, get_u32(fr, "material_count"))
      [] k = 8 -> get_values(get_u32(fr, "matid_count"),
                             "matid_count", "matids", 2)
      [] k = 9 -> get_tuple(fr, "unknown_tail", 4, 4)

\* steps k.. of read_submesh, up to the build or to an exception
RECURSIVE submesh_from(_, _, _)
submesh_from(v, fr, k) ==
    IF k > 9 \/ fr.c.err # "none" THEN fr
    ELSE submesh_from(v, submesh_step(v, fr, k), k + 1)

parse_submesh(v, c0) ==
    Parsed(submesh_from(v, [c |-> c0, l |-> NoSubmeshLocals], 1))

-----------------------------------------------------------------------------
(* read_submesh / read_submesh_279: building the mesh in the host          *)

RECURSIVE Flatten(_)
Flatten(ss) == IF ss = <<>> THEN <<>> ELSE Head(ss) \o Flatten(Tail(ss))

\* (variant of uv_layer_created that does not compare the counts)
uv_layer_created_IgnoresCount(p) == p.uvs # <<>>

\* if uvs and (len(uvs) == len(vertices))
uv_layer_created(p) == p.uvs # <<>> /\ Len(p.uvs) = Len(p.vertices)

\* if normals and (len(normals) == len(vertices))
normals_applied(p) == p.normals # <<>> /\ Len(p.normals) = Len(p.vertices)

\* if matids and len(matids) == num_faces, num_faces = len(face_indices)
matids_applied(p) == p.matids # <<>> /\ Len(p.matids) = Len(p.face_indices)

\* the value a fresh UV layer holds for a loop that was never assigned
ZeroUV == <<0, 0>>

\* for poly in mesh.polygons: for each loop: uv_layer.data[loop].uv = uvs[vert_idx]
\* uvs[vert_idx] raises IndexError at the first loop whose vertex index is
\* not below len(uvs); the loops before it keep what they were given
fill_uv_layer(p) ==
    LET loop_vertex == Flatten(p.face_indices)
        bad == {j \in 1..Len(loop_vertex) : loop_vertex[j] >= Len(p.uvs)}
    IN  [err |-> IF bad = {} THEN "none" ELSE "IndexError",
         data |-> [j \in 1..Len(loop_vertex) |->
                      IF \A b \in bad : j < b
                      THEN p.uvs[loop_vertex[j] + 1] ELSE ZeroUV]]

\* poly.material_index = mat_index if mat_index < len(obj.data.materials)
face_material_index(p, poly_index) ==
    IF matids_applied(p) /\ p.matids[poly_index] < Len(p.materials)
    THEN p.matids[poly_index] ELSE 0

\* what the environment decides for one call: whether
\* normals_split_custom_set_from_vertices succeeds, and which image loads fail
HostChoices(parsed) ==
    IF ~parsed.ok THEN {[normals_ok |-> TRUE, load_failed |-> {}]}
    ELSE LET p == parsed.locals
         IN  [normals_ok : IF normals_applied(p) THEN BOOLEAN ELSE {TRUE},
              load_failed : SUBSET {i \in 1..Len(p.materials) :
                                       strip(p.materials[i].texture1_name) # <<>>}]

build_mesh(v, p, host) ==
    LET uv == IF uv_layer_created(p) THEN fill_uv_layer(p)
              ELSE [err |-> "none", data |-> <<>>]
        nrm == normals_applied(p)
    IN  [err |-> uv.err,
         mesh |->
           [name |-> p.submesh_name,
            vertices |-> p.vertices,
            polygons |-> p.face_indices,
            uv_layers |-> IF uv_layer_created(p)
                          THEN <<[name |-> Str_UVMap, data |-> uv.data]>>
                          ELSE <<>>,
            custom_normals |-> IF uv.err = "none" /\ nrm /\ host.normals_ok
                               THEN p.normals ELSE <<>>,
            use_auto_smooth |-> uv.err = "none" /\ nrm /\ v = "2.79",
            use_smooth |-> uv.err = "none" /\ nrm /\ v = "2.79",
            materials |-> IF uv.err # "none" THEN <<>>
                          ELSE [i \in 1..Len(p.materials) |->
                                   create_blender_material(
                                       p.materials[i], i \notin host.load_failed)],
            material_index |-> [i \in 1..Len(p.face_indices) |->
                                   IF uv.err # "none" THEN 0
                                   ELSE face_material_index(p, i)]]]

\* the host after a build: the mesh exists in bpy.data.meshes from
\* meshes.new on; the object is linked to the scene after the UV layer and
\* the normals are done
linked(parsed, bpy, b) ==
    IF b.err # "none"
    THEN [f |-> [parsed.c EXCEPT !.err = b.err],
          bpy |-> [bpy EXCEPT !.meshes = Append(@, b.mesh)],
          locals |-> parsed.locals]
    ELSE [f |-> parsed.c,
          bpy |-> [meshes |-> Append(bpy.meshes, b.mesh),
                   objects |-> Append(bpy.objects,
                                      [name |-> parsed.locals.submesh_name,
                                       data |-> Len(bpy.meshes) + 1]),
                   active |-> Len(bpy.objects) + 1],
          locals |-> parsed.locals]

built(v, parsed, bpy, host) ==
    IF ~parsed.ok THEN [f |-> parsed.c, bpy |-> bpy, locals |-> parsed.locals]
    ELSE linked(parsed, bpy, build_mesh(v, parsed.locals, host))

\* One call of read_submesh(f, context): parse, then build.
read_submesh(v, f, bpy, host) == built(v, parse_submesh(v, f), bpy, host)

-----------------------------------------------------------------------------
(* ImportSkinMultiSubmesh.read_file / read_skin_file_279                   *)

NoHost == [normals_ok |-> TRUE, load_failed |-> {}]

NewRun(data) ==
    [f |-> Open(data), pc |-> "start", submesh_count |-> 0, done |-> 0,
     bpy |-> [meshes |-> <<>>, objects |-> <<>>, active |-> 0],
     calls |-> <<>>, result |-> "none"]

NoHeaderLocals == [header_byte |-> 0, header_values |-> <<>>, submesh_count |-> 0]

header_read(r, fr) ==
    IF fr.c.err # "none" THEN [r EXCEPT !.f = fr.c, !.pc = "raised"]
    ELSE [r EXCEPT !.f = fr.c, !.pc = "loop",
                   !.submesh_count = fr.l.submesh_count]

\* with open(filepath, "rb") as f: the three header reads
read_header(r) ==
    header_read(r, get_u32(get_tuple(get_u8([c |-> r.f, l |-> NoHeaderLocals],
                                            "header_byte"),
                                     "header_values", 3, 4),
                           "submesh_count"))

submesh_read(r, s) ==
    [r EXCEPT !.f = s.f, !.bpy = s.bpy,
              !.calls = Append(@, s.locals),
              !.done = IF s.f.err = "none" THEN @ + 1 ELSE @,
              !.pc = IF s.f.err = "none" THEN "loop" ELSE "raised"]

\* one iteration of: for _ in range(submesh_count): read_submesh(f, context, ...)
loop_body(v, r, host) == submesh_read(r, read_submesh(v, r.f, r.bpy, host))

\* (variant of finish in which the rest of the file is read before it is
\* closed)
finish_ReadsRest(r) ==
    [r EXCEPT !.pc = "done", !.result = "FINISHED",
              !.f = f_read(r.f, Remaining(r.f)).c]

\* the loop is exhausted: the file is closed and {'FINISHED'} returned
finish(r) == [r EXCEPT !.pc = "done", !.result = "FINISHED"]

\* (variant of Step whose loop is range(submesh_count - 1))
Step_SkipsLast(v, r, host) ==
    CASE r.pc = "start" -> read_header(r)
      [] r.pc = "loop" /\ r.done + 1 < r.submesh_count -> loop_body(v, r, host)
      [] r.pc = "loop" /\ r.done + 1 >= r.submesh_count -> finish(r)
      [] OTHER -> r

\* the step the importer takes next from r
Step(v, r, host) ==
    CASE r.pc = "start" -> read_header(r)
      [] r.pc = "loop" /\ r.done < r.submesh_count -> loop_body(v, r, host)
      [] r.pc = "loop" /\ r.done >= r.submesh_count -> finish(r)
      [] OTHER -> r
-----------------------------------------------------------------------------
(* Files.  A file is written from a description by the layout the two      *)
(* docstrings give (submesh_t, material_t), then cut to a prefix, patched  *)
(* or extended.  Floats are written as the bit patterns they are read as.  *)

MaxSubmeshes == 2      \* submesh records per file
MaxVerts == 4          \* vertex_count, uv_count, normal_count
MaxFaceIdx == 7        \* face_index_count
MaxMaterials == 2      \* material_count, and the range of the matid values
MaxMatids == 3         \* matid_count
MaxTrailing == 2       \* bytes after the last declared submesh

LE32(n) == <<n % 256, (n \div 256) % 256, (n \div 65536) % 256, (n \div 16777216) % 256>>
LE16(n) == <<n % 256, (n \div 256) % 256>>

RECURSIVE Concat(_)
Concat(ss) == IF ss = <<>> THEN <<>> ELSE Head(ss) \o Concat(Tail(ss))

\* uint32[] / float[] and uint16[] arrays, and tuples laid end to end
EncodeU32s(vals) ==
    [k \in 1..4 * Len(vals) |-> LE32(vals[(k - 1) \div 4 + 1])[((k - 1) % 4) + 1]]
EncodeU16s(vals) ==
    [k \in 1..2 * Len(vals) |-> LE16(vals[(k - 1) \div 2 + 1])[((k - 1) % 2) + 1]]
Flat(tuples, per) ==
    [k \in 1..per * Len(tuples) |-> tuples[(k - 1) \div per + 1][((k - 1) % per) + 1]]
EncodeString(bs) == LE32(Len(bs)) \o bs

EncodeMaterial(m) ==
    LE32(m.colors[1]) \o LE32(m.colors[2]) \o LE32(m.alpha)
    \o LE32(m.colors[3]) \o LE32(m.colors[4]) \o <<m.flag>>
    \o EncodeString(m.tex1) \o EncodeString(m.tex2) \o EncodeString(m.tex3)
    \o EncodeString(m.name)

EncodeSubmesh(d) ==
    EncodeString(d.name)
    \o LE32(Len(d.vertices)) \o EncodeU32s(Flat(d.vertices, 3))
    \o LE32(Len(d.faces)) \o EncodeU32s(d.faces)
    \o <<d.uv_flag>> \o LE32(Len(d.uvs)) \o EncodeU32s(Flat(d.uvs, 2))
    \o <<d.normal_flag>> \o LE32(Len(d.normals)) \o EncodeU32s(Flat(d.normals, 3))
    \o <<d.extra_flag>> \o LE32(d.reserved)
    \o LE32(Len(d.materials)) \o Concat([i \in 1..Len(d.materials) |-> EncodeMaterial(d.materials[i])])
    \o LE32(Len(d.matids)) \o EncodeU16s(d.matids)
    \o EncodeU32s(d.tail)

EncodeWhole(d) ==
    <<d.header_byte>> \o EncodeU32s(d.header_words)
    \o LE32(Len(d.submeshes)) \o Concat([i \in 1..Len(d.submeshes) |-> EncodeSubmesh(d.submeshes[i])])

\* the bytes of the file: patch (offset, bytes) overwrites a field, cut keeps
\* a prefix (-1 keeps everything), trailing zero bytes are appended
FileBytes(d) ==
    LET whole == EncodeWhole(d)
        patched == [i \in 1..Len(whole) |->
                       IF d.patch # <<>> /\ i > d.patch[1]
                                         /\ i <= d.patch[1] + Len(d.patch[2])
                       THEN d.patch[2][i - d.patch[1]] ELSE whole[i]]
        kept == IF d.cut < 0 THEN patched ELSE SubSeq(patched, 1, d.cut)
    IN  kept \o [i \in 1..d.trailing |-> 0]

MaterialDesc(name, tex1) ==
    [colors |-> <<1, 2, 3, 4>>, alpha |-> 5, flag |-> 1,
     tex1 |-> tex1, tex2 |-> <<>>, tex3 |-> <<67>>, name |-> name]

\* vertex indices alternate 0, 1: in range exactly when two vertices exist
SubmeshDesc(name, vc, fic, uvc, nc, materials, matids) ==
    [name |-> name,
     vertices |-> [i \in 1..vc |-> <<16 * i + 1, 16 * i + 2, 16 * i + 3>>],
     faces |-> [t \in 1..fic |-> (t - 1) % 2],
     uv_flag |-> 1,
     uvs |-> [i \in 1..uvc |-> <<16 * i + 4, 16 * i + 5>>],
     normal_flag |-> 1,
     normals |-> [i \in 1..nc |-> <<16 * i + 6, 16 * i + 7, 16 * i + 8>>],
     extra_flag |-> 1, reserved |-> 9,
     materials |-> materials, matids |-> matids,
     tail |-> <<11, 12, 13, 14>>]

FileDesc(submeshes) ==
    [header_byte |-> 1, header_words |-> <<2, 3, 4>>, submeshes |-> submeshes,
     patch |-> <<>>, cut |-> -1, trailing |-> 0]

Name_A == <<65>>
Name_AB == <<65, 66>>
Names == {<<>>, Name_A, Name_AB, <<255>>, <<195, 169>>, <<32>>}

Plain == SubmeshDesc(<<>>, 0, 0, 0, 0, <<>>, <<>>)
Rich == SubmeshDesc(Name_AB, 2, 3, 2, 2, <<MaterialDesc(Name_AB, Name_AB)>>, <<0>>)
SmallSubmeshes == {Plain, Rich}

\* vertex, uv and normal counts against each other
UVFamily ==
    {FileDesc(<<SubmeshDesc(Name_A, vc, fic, uvc, nc, <<>>, <<>>)>>) :
        vc \in 0..MaxVerts, uvc \in 0..MaxVerts, nc \in 0..MaxVerts,
        fic \in {0, 3, 4}}

\* face index count against matid count, matid values and material count
FaceFamily ==
    {FileDesc(<<SubmeshDesc(Name_A, 2, fic, 2, 0,
                            [i \in 1..mc |-> MaterialDesc(<<64 + i>>, <<>>)],
                            [i \in 1..mids |-> (i + base) % (MaxMaterials + 1)])>>) :
        fic \in 0..MaxFaceIdx, mc \in 0..MaxMaterials,
        mids \in 0..MaxMatids, base \in 0..MaxMaterials}

\* submesh, material and texture names
NameFamily ==
    {FileDesc(<<SubmeshDesc(n, 2, 3, 2, 0, <<MaterialDesc(m, t)>>, <<0>>)>>) :
        n \in Names, m \in Names, t \in {<<>>, Name_A, <<32>>}}

RECURSIVE SeqsUpTo(_, _)
SeqsUpTo(S, n) ==
    IF n = 0 THEN {<<>>}
    ELSE LET shorter == SeqsUpTo(S, n - 1)
         IN  shorter \cup {Append(q, x) : q \in {t \in shorter : Len(t) = n - 1}, x \in S}

\* every prefix of every file of up to MaxSubmeshes small submeshes, and every
\* such file followed by up to MaxTrailing bytes
CutFamily ==
    LET whole == {FileDesc(q) : q \in SeqsUpTo(SmallSubmeshes, MaxSubmeshes)}
    IN  UNION {{[d EXCEPT !.cut = n] : n \in 0..Len(EncodeWhole(d))} : d \in whole}
        \cup {[d EXCEPT !.trailing = n] : d \in whole, n \in 1..MaxTrailing}

\* for the comparison of two files: every whole file of up to MaxSubmeshes
\* small submeshes, and every prefix of the files of at most one submesh
TwinFamily ==
    {d \in CutFamily : d.cut < 0 \/ Len(d.submeshes) <= 1}

\* a count or length field overwritten by 65535: the header's submesh_count and
\* the fields of the first (plain) submesh at their fixed offsets
CountOffsets == {13, 17, 21, 25, 30, 35, 44, 48}
PatchFamily ==
    {[FileDesc(<<Plain>>) EXCEPT !.patch = <<at, <<255, 255, 0, 0>>>>] :
        at \in CountOffsets}

Inputs == UVFamily \cup FaceFamily \cup NameFamily \cup CutFamily \cup PatchFamily

Variants == {"2.80", "2.79"}

-----------------------------------------------------------------------------
Init ==
    /\ variant \in Variants
    /\ inp \in Inputs
    /\ alt = inp
    /\ run = NewRun(FileBytes(inp))
    /\ twin = run

\* the twin run takes the same kind of step on its own file, in the same host
Advance(host) ==
    /\ run' = Step(variant, run, host)
    /\ twin' = Step(variant, twin, host)
    /\ UNCHANGED <<variant, inp, alt>>

ReadHeader == run.pc = "start" /\ Advance(NoHost)

ReadSubmesh ==
    /\ run.pc = "loop" /\ run.done < run.submesh_count
    /\ \E host \in HostChoices(parse_submesh(variant, run.f)) : Advance(host)

Finish ==
    /\ run.pc = "loop" /\ run.done >= run.submesh_count
    /\ Advance(NoHost)

Next == ReadHeader \/ ReadSubmesh \/ Finish

Spec == Init /\ [][Next]_vars
-----------------------------------------------------------------------------
(* Two files that differ only in bytes the format calls reserved: the      *)
(* importer runs on both, step for step.                                   *)

\* d with the three flag bytes of every submesh set to fl
WithFlags(d, fl) ==
    [d EXCEPT !.submeshes =
        [i \in 1..Len(d.submeshes) |->
            [d.submeshes[i] EXCEPT !.uv_flag = fl[1], !.normal_flag = fl[2],
                                   !.extra_flag = fl[3]]]]

\* d with every other reserved field changed: header byte and words, the
\* reserved uint32, the tail words, the materials' colours, alpha and flag
WithReserved(d) ==
    [d EXCEPT !.header_byte = 7, !.header_words = <<8, 8, 8>>,
              !.submeshes =
        [i \in 1..Len(d.submeshes) |->
            [d.submeshes[i] EXCEPT
                !.reserved = 21, !.tail = <<22, 23, 24, 25>>,
                !.materials = [j \in 1..Len(@) |->
                                  [@[j] EXCEPT !.colors = <<31, 32, 33, 34>>,
                                               !.alpha = 35, !.flag = 0]]]]]

FlagChoices == {<<0, 0, 0>>, <<0, 1, 1>>, <<1, 0, 1>>, <<1, 1, 0>>, <<2, 2, 2>>}

InitTwin ==
    /\ variant \in Variants
    /\ inp \in TwinFamily
    /\ alt \in {WithFlags(inp, fl) : fl \in FlagChoices} \cup {WithReserved(inp)}
    /\ run = NewRun(FileBytes(inp))
    /\ twin = NewRun(FileBytes(alt))

SpecTwin == InitTwin /\ [][Next]_vars

\* alt differs from inp in the uv_flag, normal_flag, extra_flag bytes only
FlagsOnly == \E fl \in FlagChoices : alt = WithFlags(inp, fl) /\ alt # inp

-----------------------------------------------------------------------------
(* The two readers on one file: run is ImportSkinMultiSubmesh.read_file,   *)
(* twin is read_skin_file_279, step for step in the same host.             *)

InitBoth ==
    /\ variant = "2.80"
    /\ inp \in Inputs
    /\ alt = inp
    /\ run = NewRun(FileBytes(inp))
    /\ twin = run

AdvanceBoth(host) ==
    /\ run' = Step("2.80", run, host)
    /\ twin' = Step("2.79", twin, host)
    /\ UNCHANGED <<variant, inp, alt>>

ReadHeaderBoth == run.pc = "start" /\ AdvanceBoth(NoHost)

ReadSubmeshBoth ==
    /\ run.pc = "loop" /\ run.done < run.submesh_count
    /\ \E host \in HostChoices(parse_submesh("2.80", run.f)) : AdvanceBoth(host)

FinishBoth ==
    /\ run.pc = "loop" /\ run.done >= run.submesh_count
    /\ AdvanceBoth(NoHost)

NextBoth == ReadHeaderBoth \/ ReadSubmeshBoth \/ FinishBoth

SpecBoth == InitBoth /\ [][NextBoth]_vars

-----------------------------------------------------------------------------
(* A file, and the same file followed by bytes that no count declares: the *)
(* importer runs on both, step for step.                                   *)

\* whole files of up to MaxSubmeshes submeshes (none included), the prefixes
\* of the short ones, files with names to decode and files with a patched
\* count, all ending where their last declared byte ends
TrailingFamily ==
    {[d EXCEPT !.trailing = 0] : d \in TwinFamily \cup NameFamily \cup PatchFamily}

InitTrailing ==
    /\ variant \in Variants
    /\ inp \in TrailingFamily
    /\ alt \in {[inp EXCEPT !.trailing = n] : n \in 1..MaxTrailing}
    /\ run = NewRun(FileBytes(inp))
    /\ twin = NewRun(FileBytes(alt))

SpecTrailing == InitTrailing /\ [][Next]_vars

\* alt is inp followed by alt.trailing more bytes
TrailingOnly ==
    /\ inp.trailing = 0 /\ alt.trailing > 0
    /\ twin.f.data = run.f.data \o [i \in 1..alt.trailing |-> 0]

-----------------------------------------------------------------------------
(* Properties                                                              *)

Meshes == run.bpy.meshes
Objects == run.bpy.objects
\* the locals of the call that made mesh i (a failed parse makes no mesh and
\* ends the run, so call i made mesh i)
Locals(i) == run.calls[i]
Raised == run.pc = "raised"
Finished == run.pc = "done"

\* C1: a fatal decode error leaves no partial Model: when the bytes run out
\* while submesh k >= 2 of N >= 2 is decoded, no mesh or object of submeshes
\* 1..k-1 exists afterwards.
C1_NoPartialModel ==
    (/\ Raised /\ run.f.err = "struct.error"
     /\ run.submesh_count >= 2 /\ Len(run.calls) >= 2)
        => (Meshes = <<>> /\ Objects = <<>>)

\* C2: a length-prefixed string with fewer bytes left than declared fails at
\* its own read: no string is ever built from fewer bytes than declared.
C2_NoShortString == run.f.short = <<>>

\* C3: face_index_count k gives exactly floor(k/3) faces, each a full triple.
C3_FullTriplesOnly ==
    \A i \in 1..Len(Meshes) :
        /\ Len(Meshes[i].polygons) = Locals(i).face_count \div 3
        /\ \A j \in 1..Len(Meshes[i].polygons) : Len(Meshes[i].polygons[j]) = 3

\* A file is well formed when it is a whole, unpatched encoding and its face
\* indices are below the vertex count wherever a UV layer is filled.
WellFormedSubmesh(d) ==
    (Len(d.uvs) > 0 /\ Len(d.uvs) = Len(d.vertices))
        => \A t \in 1..Len(d.faces) : d.faces[t] < Len(d.vertices)
WellFormed ==
    /\ inp.cut < 0 /\ inp.patch = <<>>
    /\ \A i \in 1..Len(inp.submeshes) : WellFormedSubmesh(inp.submeshes[i])

ExpectedName(d) == IF d.name = <<>> THEN Str_Submesh ELSE decode_utf8_ignore(d.name)

\* mesh and object i are what submesh record i of the file describes
IsRecord(i) ==
    LET d == inp.submeshes[i]
        m == Meshes[Objects[i].data]
    IN  /\ Objects[i].data = i
        /\ Objects[i].name = ExpectedName(d) /\ m.name = ExpectedName(d)
        /\ m.vertices = d.vertices
        /\ Flatten(m.polygons) = d.faces
        /\ Len(m.materials) = Len(d.materials)
        /\ Locals(i).matids = d.matids
        /\ Locals(i).uvs = d.uvs /\ Locals(i).normals = d.normals

\* C4: a well-formed file declaring submesh_count = N makes the importer call
\* read_submesh exactly N times and yields exactly N submeshes, the i-th
\* being the i-th record of the file.
C4_ExactlyNInOrder ==
    (WellFormed /\ run.pc # "start") =>
        /\ ~Raised
        /\ run.submesh_count = Len(inp.submeshes)
        /\ Len(run.calls) = run.done /\ Len(Objects) = run.done
        /\ Len(Meshes) = run.done
        /\ run.done <= run.submesh_count
        /\ Finished => run.done = run.submesh_count
        /\ \A i \in 1..run.done : IsRecord(i)

C4_Witness ==
    /\ WellFormed /\ Finished /\ run.done = 2
    /\ inp.submeshes[1] # inp.submeshes[2]
    /\ IsRecord(1) /\ IsRecord(2)

\* C5: with matid_count equal to the number of face triples, face i gets
\* matids[i] when that is below material_count and keeps its default
\* otherwise; with any other matid_count no face's material index changes.
C5_MatidsPerTriple ==
    \A i \in 1..Len(Objects) :
        LET l == Locals(i)
            m == Meshes[i]
            triples == l.face_count \div 3
        IN  \A j \in 1..Len(m.material_index) :
                m.material_index[j] =
                    IF /\ l.matid_count = triples /\ j <= triples
                       /\ l.matids[j] < l.material_count
                    THEN l.matids[j] ELSE 0

\* the same statement for submeshes whose face_index_count is a multiple of 3
C5_HoldsForWholeTriples ==
    \A i \in 1..Len(Objects) :
        LET l == Locals(i)
            m == Meshes[i]
        IN  l.face_count % 3 = 0 =>
                \A j \in 1..Len(m.material_index) :
                    m.material_index[j] =
                        IF /\ l.matid_count = l.face_count \div 3
                           /\ l.matids[j] < l.material_count
                        THEN l.matids[j] ELSE 0

\* C6 as stated: a UV layer is attached if and only if
\* len(uvs) == len(vertices).
C6_LayerIffCountsEqual ==
    \A i \in 1..Len(Meshes) :
        (Meshes[i].uv_layers # <<>>) <=> (Locals(i).uv_count = Locals(i).vertex_count)

\* C6 (amended): a UV layer is attached if and only if uv_count > 0 and
\* len(uvs) == len(vertices); a submesh whose counts differ gets no layer,
\* raises nothing and is linked to the scene like any other.
C6_LayerIffNonEmptyAndEqual ==
    \A i \in 1..Len(Meshes) :
        LET l == Locals(i)
        IN  /\ (Meshes[i].uv_layers # <<>>)
                   <=> (l.uv_count > 0 /\ l.uv_count = l.vertex_count)
            /\ Len(l.uvs) = l.uv_count /\ Len(l.vertices) = l.vertex_count
            /\ l.uv_count # l.vertex_count =>
                   /\ i <= Len(Objects) /\ Objects[i].data = i
                   /\ ~(Raised /\ i = Len(run.calls))

C6_Witness ==
    /\ Finished /\ Len(Meshes) = 1 /\ Len(Objects) = 1
    /\ Locals(1).vertex_count = 4 /\ Locals(1).uv_count = 3
    /\ Locals(1).face_count > 0
    /\ Meshes[1].uv_layers = <<>>

\* C7: a count that needs more bytes than remain is rejected before anything
\* sized by it is built: no format string is built for more bytes than are left.
C7_NoOversizedAllocation ==
    \A k \in 1..Len(run.f.allocs) :
        run.f.allocs[k].units * run.f.allocs[k].size <= run.f.allocs[k].left

\* C8: the decoded result retains every reserved field, so that it can be
\* encoded back to the original bytes: two files that import to the same
\* result are the same file.
C8_ResultDeterminesBytes ==
    (/\ Finished /\ twin.pc = "done"
     /\ run.bpy = twin.bpy /\ run.result = twin.result)
        => run.f.data = twin.f.data

\* the material names the file declares for submesh i, decoded
DeclaredMaterialName(i, j) == decode_utf8_ignore(inp.submeshes[i].materials[j].name)

\* C9: name_len = 0 gives the submesh the name "Submesh"; an empty
\* material_name gives the material the name "ImportedMaterial", in both
\* variants; a non-empty decoded name is used unchanged.
C9_EmptyNameDefaults ==
    inp.patch = <<>> =>
        \A i \in 1..Len(Objects) :
            LET d == inp.submeshes[i]
                m == Meshes[i]
            IN  /\ d.name = <<>> => (m.name = Str_Submesh /\ Objects[i].name = Str_Submesh)
                /\ d.name # <<>> =>
                       (m.name = decode_utf8_ignore(d.name) /\ Objects[i].name = m.name)
                /\ Len(m.materials) = Len(d.materials)
                /\ \A j \in 1..Len(m.materials) :
                       m.materials[j].name =
                           IF DeclaredMaterialName(i, j) = <<>>
                           THEN Str_ImportedMaterial ELSE DeclaredMaterialName(i, j)

C9_Witness ==
    /\ Finished /\ variant = "2.80" /\ inp.patch = <<>> /\ Len(Objects) = 1
    /\ inp.submeshes[1].name = <<>> /\ Meshes[1].name = Str_Submesh
    /\ Len(Meshes[1].materials) = 1
    /\ inp.submeshes[1].materials[1].name = <<>>
    /\ Meshes[1].materials[1].name = Str_ImportedMaterial

\* the locals of a call with the three flag values blanked
SansFlags(l) ==
    IF l = <<>> THEN l
    ELSE [l EXCEPT !.uv_flag = 0, !.normal_flag = 0, !.extra_flag = 0]

\* C10: uv_flag, normal_flag and extra_flag never influence decoding: two
\* files that differ only in those bytes are read by the same reads in the
\* same order, to the same position, and decode to the same data.
C10_FlagsDoNotGate ==
    FlagsOnly =>
        /\ twin.pc = run.pc
        /\ twin.f.reads = run.f.reads /\ twin.f.pos = run.f.pos
        /\ twin.f.err = run.f.err
        /\ twin.bpy = run.bpy
        /\ Len(twin.calls) = Len(run.calls)
        /\ \A i \in 1..Len(run.calls) :
               SansFlags(twin.calls[i]) = SansFlags(run.calls[i])

C10_Witness ==
    /\ FlagsOnly /\ Finished /\ twin.pc = "done" /\ run.done = 2
    /\ \E i \in 1..2 :
           /\ run.calls[i].uv_flag = 1 /\ twin.calls[i].uv_flag = 0
           /\ run.calls[i].uv_count = 2 /\ twin.calls[i].uvs = run.calls[i].uvs
           /\ Meshes[i].uv_layers # <<>>

\* the fields of one material as the two readers return them: the same
\* values, the flag byte under either key, and the same material_name unless
\* the name is empty
SameMaterial(m, m279) ==
    /\ m.color1 = m279.color1 /\ m.color2 = m279.color2
    /\ m.alpha = m279.alpha
    /\ m.color3 = m279.color3 /\ m.color4 = m279.color4
    /\ m.flag1 = m279.flag
    /\ m.texture1_name = m279.texture1_name
    /\ m.texture2_name = m279.texture2_name
    /\ m.texture3_name = m279.texture3_name
    /\ \/ m.material_name = m279.material_name
       \/ m.material_name = <<>> /\ m279.material_name = Str_ImportedMaterial

\* the locals of one call of read_submesh and of read_submesh_279
SameDecoded(l, l279) ==
    IF l = <<>> \/ l279 = <<>> THEN l = <<>> /\ l279 = <<>>
    ELSE /\ [l EXCEPT !.materials = <<>>] = [l279 EXCEPT !.materials = <<>>]
         /\ Len(l.materials) = Len(l279.materials)
         /\ \A j \in 1..Len(l.materials) :
                SameMaterial(l.materials[j], l279.materials[j])

\* C11: on every file the two readers make the same reads in the same order,
\* consume the same bytes, raise at the same read or both finish, and decode
\* the same names, vertices, faces, uvs, normals, matids and material
\* fields, except for the value of an empty material_name.
C11_OneDecoder ==
    /\ twin.pc = run.pc
    /\ twin.f.reads = run.f.reads /\ twin.f.pos = run.f.pos
    /\ twin.f.err = run.f.err
    /\ twin.f.allocs = run.f.allocs /\ twin.f.short = run.f.short
    /\ twin.submesh_count = run.submesh_count /\ twin.done = run.done
    /\ twin.result = run.result
    /\ Len(twin.calls) = Len(run.calls)
    /\ \A i \in 1..Len(run.calls) : SameDecoded(run.calls[i], twin.calls[i])

C11_Witness ==
    /\ Finished /\ twin.pc = "done" /\ Len(run.calls) = 1
    /\ Len(run.calls[1].materials) = 1
    /\ run.calls[1].materials[1].material_name = <<>>
    /\ twin.calls[1].materials[1].material_name = Str_ImportedMaterial
    /\ run.calls[1].submesh_name = twin.calls[1].submesh_name
    /\ run.calls[1].vertices # <<>>

\* C12: bytes after the last declared submesh are never read and change
\* nothing: as long as the import of a file has not raised, the import of the
\* same file followed by more bytes has made the same reads, stands at the
\* same position, has built the same meshes and objects, and finishes when
\* the first one does; with submesh_count = 0 that is right after the header.
C12_TrailingIgnored ==
    (TrailingOnly /\ ~Raised) =>
        /\ twin.pc = run.pc
        /\ twin.f.reads = run.f.reads /\ twin.f.pos = run.f.pos
        /\ twin.f.err = "none"
        /\ Remaining(twin.f) >= alt.trailing
        /\ twin.submesh_count = run.submesh_count /\ twin.done = run.done
        /\ twin.calls = run.calls /\ twin.bpy = run.bpy
        /\ twin.result = run.result
        /\ Finished => /\ twin.result = "FINISHED"
                       /\ twin.done = twin.submesh_count
                       /\ (run.submesh_count = 0 => twin.f.pos = 17)

C12_Witness ==
    /\ TrailingOnly /\ Finished /\ twin.pc = "done"
    /\ run.submesh_count = 2 /\ Len(twin.bpy.objects) = 2
    /\ Remaining(run.f) = 0 /\ Remaining(twin.f) = alt.trailing

\* the same with no submesh declared: the 17-byte header, then ignored bytes
C12_HeaderOnly ==
    /\ TrailingOnly /\ Finished /\ twin.pc = "done"
    /\ run.submesh_count = 0 /\ twin.f.pos = 17
    /\ Remaining(twin.f) = alt.trailing /\ twin.bpy.meshes = <<>>

====
